---- MODULE Spec2Model ----
(***************************************************************************)
(* Lane line regressor of P1.ipynb: the Line / Segment / Segments data     *)
(* types and the LaneRegressor running estimate.                           *)
(*                                                                         *)
(* Numbers.  Python numbers are modelled as triples <<q, e, k>> standing   *)
(* for q * 2^e + k * maxsize, q odd or zero.  The part q * 2^e is a binary  *)
(* floating point value kept to PrecBits significant bits, rounded to      *)
(* nearest, ties to even, after every operation (Python floats do the same *)
(* with 53 bits); integers small enough to be exact stay exact.  The part  *)
(* k * maxsize carries the integer sentinel sys.maxsize symbolically.      *)
(***************************************************************************)
EXTENDS Integers, Sequences, FiniteSets, TLC

VARIABLES
    lines,      \* LaneRegressor.lines: key -> Line <<m, b>>, or None
    pc,         \* position inside LaneRegressor.__call__
    shape,      \* image.shape[:2] = <<y_n, x_n>> of the video's frames
    segments,   \* the HoughSegments of the frame being processed
    prev,       \* lines as they were when the frame's __call__ began
    updating,   \* update()'s local `updating`, per key, for this frame
    drawn,      \* what draw() passed to cv2.line, per key, for this frame
    frames,     \* number of frames begun
    obj,        \* a Line under test             (Line specifications)
    arg,        \* the inputs of the test        (Line, Segments specifications)
    out,        \* the result of the operation   (Line, Segments specifications)
    count       \* number of operations applied  (Line specifications)

vars == <<lines, pc, shape, segments, prev, updating, drawn, frames, obj, arg, out, count>>

\* ------------------------------------------------------------------ bounds
\* significant bits of a float (53 in Python)
PrecBits == 8
\* pixel coordinates of test points and segments range over 0..MaxCoord
MaxCoord == 2
\* segments per frame
MaxSegs == 2
\* frames of the video
MaxFrames == 2
\* consecutive Line.update calls
MaxUpdates == 3

\* None, and the absence of a dict entry
None == <<>>

\* ------------------------------------------------------- number arithmetic
AbsI(x) == IF x < 0 THEN -x ELSE x

SgnI(x) == IF x < 0 THEN -1 ELSE IF x > 0 THEN 1 ELSE 0

MinI(x, y) == IF x < y THEN x ELSE y

MaxI(x, y) == IF x < y THEN y ELSE x

RECURSIVE BitLen(_)
BitLen(n) == IF n = 0 THEN 0 ELSE 1 + BitLen(n \div 2)

RECURSIVE Canon(_, _)
Canon(q, e) ==
    IF q = 0 THEN <<0, 0>>
    ELSE IF q % 2 = 0 THEN Canon(q \div 2, e + 1)
    ELSE <<q, e>>

\* q * 2^e rounded to PrecBits significant bits, nearest, ties to even
Round(q, e) ==
    LET a == AbsI(q)
        drop == BitLen(a) - PrecBits
    IN  IF drop <= 0 THEN Canon(q, e)
        ELSE LET quot == a \div (2 ^ drop)
                 rem == a % (2 ^ drop)
                 half == 2 ^ (drop - 1)
                 up == IF rem > half THEN 1
                       ELSE IF rem = half THEN quot % 2
                       ELSE 0
             IN  Canon(SgnI(q) * (quot + up), e + drop)

\* position of the leading bit of q * 2^e
Top(q, e) == e + BitLen(AbsI(q))

\* float addition of q1 * 2^e1 and q2 * 2^e2
RoundAdd(q1, e1, q2, e2) ==
    IF q1 = 0 THEN Canon(q2, e2)
    ELSE IF q2 = 0 THEN Canon(q1, e1)
    ELSE IF Top(q1, e1) - Top(q2, e2) > PrecBits + 2 THEN Round(q1, e1)
    ELSE IF Top(q2, e2) - Top(q1, e1) > PrecBits + 2 THEN Round(q2, e2)
    ELSE LET e == MinI(e1, e2)
         IN  Round(q1 * (2 ^ (e1 - e)) + q2 * (2 ^ (e2 - e)), e)

\* the integer n as a number
Num(n) == LET c == Canon(n, 0) IN <<c[1], c[2], 0>>

\* sys.maxsize
maxsize == <<0, 0, 1>>

\* the integer value of the float part of a (when it is one)
IntPart(a) == a[1] * (2 ^ a[2])

Neg(a) == <<-a[1], a[2], -a[3]>>

Add(a, b) ==
    LET r == RoundAdd(a[1], a[2], b[1], b[2])
    IN  <<r[1], r[2], a[3] + b[3]>>

Sub(a, b) == Add(a, Neg(b))

Mul(a, b) ==
    LET r == Round(a[1] * b[1], a[2] + b[2])
        k == IF a[3] = 0 /\ b[3] = 0 THEN 0
             ELSE a[3] * IntPart(b) + b[3] * IntPart(a)
    IN  <<r[1], r[2], k>>

\* true division n / d of two integers, d # 0
Div(n, d) ==
    IF n = 0 THEN Num(0)
    ELSE LET t == PrecBits + 2 + BitLen(AbsI(d))
             N == AbsI(n) * (2 ^ t)
             quot == N \div AbsI(d)
             sticky == IF N % AbsI(d) > 0 THEN 1 ELSE 0
             r == Round(SgnI(n) * SgnI(d) * (2 * quot + sticky), -(t + 1))
         IN  <<r[1], r[2], 0>>

\* a < b
Less(a, b) ==
    IF a[3] # b[3] THEN a[3] < b[3]
    ELSE RoundAdd(a[1], a[2], -b[1], b[2])[1] < 0

\* mutant of Trunc: the value is rounded down to the floor
Trunc_Floor(a) ==
    IF a[2] >= 0 THEN a
    ELSE LET c == Canon(-((-a[1] + (2 ^ (-a[2])) - 1) \div (2 ^ (-a[2]))), 0)
         IN  <<c[1], c[2], a[3]>>

\* int(a): the fractional part discarded toward zero
Trunc(a) ==
    IF a[2] >= 0 THEN a
    ELSE LET c == Canon(SgnI(a[1]) * (AbsI(a[1]) \div (2 ^ (-a[2]))), 0)
         IN  <<c[1], c[2], a[3]>>

\* ----------------------------------------------------------------- Line
\* mutant of Line: the offset is taken at the other point's x
Line_OffsetAtX1(x1, y1, x2, y2) ==
    LET dx == x2 - x1
        dy == y2 - y1
        m == IF dx # 0 THEN Div(dy, dx) ELSE maxsize
        b == Sub(Num(y2), Mul(Num(x1), m))
    IN  <<m, b>>

\* Line.__init__: the line through (x1, y1) and (x2, y2), as <<m, b>>
Line(x1, y1, x2, y2) ==
    LET dx == x2 - x1
        dy == y2 - y1
        m == IF dx # 0 THEN Div(dy, dx) ELSE maxsize
        b == Sub(Num(y2), Mul(Num(x2), m))
    IN  <<m, b>>

\* Line.__call__: int(x * m + b)
Line_call(self, x) == Trunc(Add(Mul(Num(x), self[1]), self[2]))

\* the float literal 0.98, default of Line.update's smoothing factor
lambda == Div(49, 50)

\* mutant of Line.update: the weights are swapped
Line_update_Swapped(self, line, lam) ==
    LET m == self[1]
        b == self[2]
        m_i == line[1]
        b_i == line[2]
    IN  <<Add(Mul(Sub(Num(1), lam), m), Mul(lam, m_i)),
          Add(Mul(Sub(Num(1), lam), b), Mul(lam, b_i))>>

\* Line.update: the new <<m, b>> of self
Line_update(self, line, lam) ==
    LET m == self[1]
        b == self[2]
        m_i == line[1]
        b_i == line[2]
    IN  <<Add(Mul(lam, m), Mul(Sub(Num(1), lam), m_i)),
          Add(Mul(lam, b), Mul(Sub(Num(1), lam), b_i))>>

\* -------------------------------------------------------------- Segment
\* mutant of slope: the sentinel takes the sign of dy
slope_SignedSentinel(s) ==
    LET dx == s[3] - s[1]
        dy == s[4] - s[2]
    IN  IF dx # 0 THEN Div(dy, dx)
        ELSE IF dy < 0 THEN Neg(maxsize) ELSE maxsize

\* Segment.slope
slope(s) ==
    LET dx == s[3] - s[1]
        dy == s[4] - s[2]
    IN  IF dx # 0 THEN Div(dy, dx) ELSE maxsize

\* ------------------------------------------------------------- Segments
\* mutant of Range: the upper end is left out, range(a, b)
Range_Exclusive(a, b) == IF b <= a THEN <<>> ELSE [i \in 1..(b - a) |-> a + i - 1]

\* range(a, b + 1) as a sequence
Range(a, b) == IF b < a THEN <<>> ELSE [i \in 1..(b - a + 1) |-> a + i - 1]

\* Segments.dataset: <<X, y>>, the x and the y of the points, in order
RECURSIVE dataset(_)
dataset(self) ==
    IF self = <<>> THEN <<(<<>>), (<<>>)>>
    ELSE LET segment == Head(self)
             line == Line(segment[1], segment[2], segment[3], segment[4])
             xs == Range(segment[1], segment[3])
             ys == [i \in 1..Len(xs) |-> Line_call(line, xs[i])]
             rest == dataset(Tail(self))
         IN  <<xs \o rest[1], ys \o rest[2]>>

\* Segments.select
select(self, criterion(_)) == SelectSeq(self, criterion)

\* -------------------------------------------------------- LaneRegressor
Keys == {"l", "r"}

\* frame sizes <<y_n, x_n>>
Shapes == {<<1, 2>>, <<3, 4>>, <<2, 2>>, <<9, 16>>, <<1, 3>>, <<3, 2>>}

\* frame sizes of the videos processed
VideoShapes == {<<1, 2>>, <<3, 4>>}

\* segments HoughLinesP may report
HoughUniverse ==
    { <<0, 2, 2, 0>>,     \* slope -1
      <<0, 2, 1, 0>>,     \* slope -2
      <<2, 0, 0, 2>>,     \* slope -1, x1 > x2
      <<0, 0, 2, 2>>,     \* slope 1
      <<2, 2, 1, 0>>,     \* slope 2, x1 > x2
      <<1, 0, 1, 2>>,     \* vertical
      <<0, 0, 2, 1>>,     \* slope 1/2
      <<0, 1, 2, 1>> }    \* horizontal

\* the sequences over S of length at most k
SeqsUpTo(S, k) == UNION {[1..i -> S] : i \in 0..k}

\* the segment lists of the frames of a video
HoughFrames ==
    { <<>>,
      << <<0, 2, 2, 0>> >>,
      << <<0, 0, 2, 2>> >>,
      << <<0, 2, 2, 0>>, <<0, 0, 2, 2>> >>,
      << <<2, 0, 0, 2>>, <<0, 0, 2, 2>> >>,
      << <<0, 2, 2, 0>>, <<2, 2, 1, 0>> >>,
      << <<2, 0, 0, 2>>, <<0, 2, 1, 0>> >> }

\* the values int(model.predict(x)[0]) of a fitted RANSAC model
FitY == {0, 2}

\* m = y_n / x_n of __call__
m_thresh(shp) == Div(shp[1], shp[2])

\* mutant of criterion: the right criterion has no lower bound
criterion_NoLowerBound(key, s, m) ==
    IF key = "l" THEN Less(slope(s), Neg(m))
    ELSE Less(slope(s), maxsize)

\* the criterion __call__ passes to update() for key
criterion(key, s, m) ==
    IF key = "l" THEN Less(slope(s), Neg(m))
    ELSE Less(m, slope(s)) /\ Less(slope(s), maxsize)

\* update()'s `selected`
selected(key, segs, shp) ==
    select(segs, LAMBDA s : criterion(key, s, m_thresh(shp)))

MinOf(X) == CHOOSE x \in {X[i] : i \in 1..Len(X)} : \A i \in 1..Len(X) : x <= X[i]

MaxOf(X) == CHOOSE x \in {X[i] : i \in 1..Len(X)} : \A i \in 1..Len(X) : x >= X[i]

\* model.fit(X, y) and X.min() raise ValueError on an empty X
FitRaises(X) == Len(X) = 0

\* mutant of Stored: the result of the in-place Line.update is assigned
Stored_AssignsResult(line, upd) ==
    IF line = None THEN upd ELSE None

\* mutant of Stored: the first fit is smoothed into a zero line
Stored_SmoothsFirst(line, upd) ==
    Line_update(IF line = None THEN <<Num(0), Num(0)>> ELSE line, upd, lambda)

\* update(), lines 307-311: the entry of lines[key] once `updating` is known
Stored(line, upd) ==
    IF line = None THEN upd ELSE Line_update(line, upd, lambda)

\* mutant of update_lines: an empty selection clears the estimate
update_lines_Clears(lns, key, sel, upd) ==
    IF Len(sel) = 0 THEN [lns EXCEPT ![key] = None]
    ELSE [lns EXCEPT ![key] = Stored(lns[key], upd)]

\* update(): self.lines after the call, given `selected` and `updating`
update_lines(lns, key, sel, upd) ==
    IF Len(sel) = 0 THEN lns
    ELSE [lns EXCEPT ![key] = Stored(lns[key], upd)]

\* LaneRegressor.__init__
Init ==
    /\ lines = [k \in Keys |-> None]
    /\ pc = "idle"
    /\ shape \in VideoShapes
    /\ segments = <<>>
    /\ prev = [k \in Keys |-> None]
    /\ updating = [k \in Keys |-> None]
    /\ drawn = [k \in Keys |-> None]
    /\ frames = 0
    /\ obj = None
    /\ arg = None
    /\ out = None
    /\ count = 0

harness == <<obj, arg, out, count>>

\* __call__ is entered with the next frame: HoughSegments(...) is computed
Call(segs) ==
    /\ pc = "idle"
    /\ frames < MaxFrames
    /\ frames' = frames + 1
    /\ segments' = segs
    /\ prev' = lines
    /\ updating' = [k \in Keys |-> None]
    /\ drawn' = [k \in Keys |-> None]
    /\ pc' = "update_l"
    /\ UNCHANGED <<lines, shape, harness>>

\* self.update(key, segments, criterion), then the statement at `next`
Update(key, next) ==
    /\ pc = "update_" \o key
    /\ LET sel == selected(key, segments, shape)
           X == dataset(sel)[1]
       IN  IF Len(sel) = 0
           THEN /\ lines' = update_lines(lines, key, sel, None)
                /\ pc' = next
                /\ UNCHANGED updating
           ELSE IF FitRaises(X)
           THEN /\ pc' = "raised_" \o key
                /\ UNCHANGED <<lines, updating>>
           ELSE \E y1 \in FitY, y2 \in FitY :
                  LET upd == Line(MinOf(X), y1, MaxOf(X), y2)
                  IN  /\ updating' = [updating EXCEPT ![key] = upd]
                      /\ lines' = update_lines(lines, key, sel, upd)
                      /\ pc' = next
    /\ UNCHANGED <<shape, segments, prev, drawn, frames, harness>>

UpdateL == Update("l", "update_r")

UpdateR == Update("r", "draw_l")

\* the points Line.draw hands to cv2.line
Line_draw(self, x1, x2) == <<x1, Line_call(self, x1), x2, Line_call(self, x2)>>

\* mutant of Draw: the line drawn is the one held when the frame began
Draw_StaleState(key, x1, x2, next) ==
    /\ pc = "draw_" \o key
    /\ drawn' = [drawn EXCEPT ![key] =
                    IF prev[key] = None THEN None
                    ELSE Line_draw(prev[key], x1, x2)]
    /\ pc' = next
    /\ UNCHANGED <<lines, shape, segments, prev, updating, frames, harness>>

\* self.draw(key, lines_img, x1, x2), then the statement at `next`
Draw(key, x1, x2, next) ==
    /\ pc = "draw_" \o key
    /\ drawn' = [drawn EXCEPT ![key] =
                    IF lines[key] = None THEN None
                    ELSE Line_draw(lines[key], x1, x2)]
    /\ pc' = next
    /\ UNCHANGED <<lines, shape, segments, prev, updating, frames, harness>>

x_c == shape[2] \div 2

x_l == shape[2] - 1

DrawL == Draw("l", 0, x_c, "draw_r")

DrawR == Draw("r", x_c, x_l, "return")

\* return weighted_img(lines_img, image): the frame's locals go away
Return ==
    /\ pc = "return"
    /\ pc' = "idle"
    /\ segments' = <<>>
    /\ prev' = [k \in Keys |-> None]
    /\ updating' = [k \in Keys |-> None]
    /\ drawn' = [k \in Keys |-> None]
    /\ UNCHANGED <<lines, shape, frames, harness>>

Next ==
    \/ \E segs \in HoughFrames : Call(segs)
    \/ UpdateL
    \/ UpdateR
    \/ DrawL
    \/ DrawR
    \/ Return

Spec == Init /\ [][Next]_vars

\* ------------------------------------------- claims on the frame loop
\* update(key, ...) of the current frame has returned
Updated(key) ==
    IF key = "l" THEN pc \in {"update_r", "draw_l", "draw_r", "return"}
    ELSE pc \in {"draw_l", "draw_r", "return"}

\* no segment of the current frame qualifies for key
NoneQualifies(key) == Len(selected(key, segments, shape)) = 0

\* C1: once a side holds an estimate, a frame in which no segment qualifies
\* for that side (update() with an empty selection) leaves the side's stored
\* <<m, b>> exactly as it was when the frame began; frame after frame, the
\* estimate therefore stays the one from before the gap.
C1_Persistence ==
    \A k \in Keys :
        (Updated(k) /\ prev[k] # None /\ NoneQualifies(k)) => lines[k] = prev[k]

\* C1 witness: in the second frame a side that held an estimate has been
\* updated with an empty selection and still holds that estimate
C1_Witness ==
    \E k \in Keys :
        /\ frames = 2 /\ Updated(k) /\ NoneQualifies(k)
        /\ prev[k] # None /\ lines[k] = prev[k]

\* C2: when a side has no estimate and the frame yields a fitted line for
\* it, the stored estimate is that fitted line exactly; when the side
\* already has an estimate, the stored estimate is Line.update of the old
\* one with the fitted line (smoothing only on later fits).
C2_FirstFitVerbatim ==
    \A k \in Keys :
        (Updated(k) /\ updating[k] # None) =>
            /\ prev[k] = None => lines[k] = updating[k]
            /\ prev[k] # None =>
                   lines[k] = Line_update(prev[k], updating[k], lambda)

\* C2 witness: a first fit has been stored for a side, with a slope and an
\* offset that smoothing would have changed
C2_Witness ==
    \E k \in Keys :
        /\ Updated(k) /\ prev[k] = None /\ updating[k] # None
        /\ lines[k] = updating[k]
        /\ lines[k][1] # Num(0) /\ lines[k][2] # Num(0)

\* C3: an entry of lines, once it exists, exists in every later state.
C3_NeverUninitialized ==
    [][\A k \in Keys : lines[k] # None => lines'[k] # None]_vars

\* C3 witness: a side's estimate has survived a second fit
C3_Witness ==
    \E k \in Keys :
        /\ Updated(k) /\ prev[k] # None /\ updating[k] # None
        /\ lines[k] # None

\* update(key, ...) of the current frame raised
Raised(key) == pc = "raised_" \o key

\* the frame's __call__ has ended, by return or by an exception
FrameEnded == pc = "return" \/ \E k \in Keys : Raised(k)

\* the x of the points the segments selected for key densify to
Cloud(key) == dataset(selected(key, segments, shape))[1]

\* the values update() alone can leave in lines[key] in this frame, going by
\* the segments that qualify for key and the entry the frame began with
Outcomes(key) ==
    IF NoneQualifies(key) \/ FitRaises(Cloud(key)) THEN {prev[key]}
    ELSE {Stored(prev[key], Line(MinOf(Cloud(key)), y1, MaxOf(Cloud(key)), y2)) :
             y1 \in FitY, y2 \in FitY}

\* C4 (as claimed): when a frame has been processed each side's entry is a
\* result of that side's own update, whatever happened on the other side:
\* it depends only on the side's qualifying segments and its previous entry.
C4_SideIndependence ==
    FrameEnded => \A k \in Keys : lines[k] \in Outcomes(k)

\* fewer than two distinct x among the points selected for key
Insufficient(key) ==
    Cardinality({Cloud(key)[i] : i \in 1..Len(Cloud(key))}) < 2

\* C8 (as claimed): when the segments selected for a side are empty or
\* densify to fewer than two distinct x, update() for that side raises
\* nothing and leaves the side's entry unchanged.
C8_InsufficientAbsorbed ==
    \A k \in Keys :
        (Insufficient(k) /\ (Updated(k) \/ Raised(k))) =>
            (~Raised(k) /\ lines[k] = prev[k])

\* --------------------------------------------- Line.update, repeatedly
regressor == <<lines, pc, shape, segments, prev, updating, drawn, frames>>

\* end points of lines a fit may produce
SmoothPoints ==
    { <<0, 2, 2, 0>>, <<0, 0, 2, 2>>, <<0, 1, 2, 1>>, <<0, 0, 3, 1>>,
      <<0, 7, 5, 0>>, <<0, 0, 5, 7>>, <<1, 3, 4, 0>> }

\* the lines under test and the incoming lines
SmoothLines == {Line(p[1], p[2], p[3], p[4]) : p \in SmoothPoints}

\* smoothing factors in [0, 1]
Factors == {Num(0), Div(1, 4), Div(1, 2), lambda, Num(1)}

InitIdle ==
    /\ lines = [k \in Keys |-> None]
    /\ pc = "idle"
    /\ shape = <<1, 2>>
    /\ segments = <<>>
    /\ prev = [k \in Keys |-> None]
    /\ updating = [k \in Keys |-> None]
    /\ drawn = [k \in Keys |-> None]
    /\ frames = 0

SmoothInit ==
    /\ InitIdle
    /\ obj \in SmoothLines
    /\ arg \in [line : SmoothLines, lam : Factors]
    /\ out = None
    /\ count = 0

\* self.update(line, lam) on the line under test
Smooth ==
    /\ count < MaxUpdates
    /\ obj' = Line_update(obj, arg.line, arg.lam)
    /\ count' = count + 1
    /\ UNCHANGED <<arg, out, regressor>>

SmoothNext == Smooth

SpecSmooth == SmoothInit /\ [][SmoothNext]_vars

\* exact arithmetic on the float parts, for stating properties
MinExp3(a, b, c) == MinI(a[2], MinI(b[2], c[2]))

\* a[1] * 2^a[2] as a multiple of 2^E
Scaled(a, E) == a[1] * (2 ^ (a[2] - E))

\* |a - c| <= |b - c|, exactly
CloserOrEqual(a, b, c) ==
    LET E == MinExp3(a, b, c)
    IN  AbsI(Scaled(a, E) - Scaled(c, E)) <= AbsI(Scaled(b, E) - Scaled(c, E))

\* a and b are not strictly on opposite sides of c
SameSide(a, b, c) ==
    LET E == MinExp3(a, b, c)
    IN  (Scaled(a, E) - Scaled(c, E)) * SgnI(Scaled(b, E) - Scaled(c, E)) >= 0

\* leading bit position of the larger in magnitude of a and b
MagTop(a, b) ==
    IF a[1] = 0 THEN Top(b[1], b[2])
    ELSE IF b[1] = 0 THEN Top(a[1], a[2])
    ELSE MaxI(Top(a[1], a[2]), Top(b[1], b[2]))

\* C7 (as claimed): under repeated Line.update with the same incoming line,
\* |m - m0| and |b - b0| never increase from one update to the next and
\* m, b never cross to the other side of m0, b0.
C7_Orig ==
    [][\A i \in 1..2 :
          /\ CloserOrEqual(obj'[i], obj[i], arg.line[i])
          /\ SameSide(obj'[i], obj[i], arg.line[i])]_vars

\* one update step of component i stays within two units in the last place
\* (of the larger of the old and the incoming value) of: not increasing the
\* distance to the incoming value, not passing it, and the exact blend
\* lam * old + (1 - lam) * incoming
BlendWithinRounding(new, old, inc, lam) ==
    LET E == MinI(MinExp3(new, old, inc), MagTop(old, inc) - PrecBits)
        A == Scaled(new, E)
        B == Scaled(old, E)
        C == Scaled(inc, E)
        tol == IF old[1] = 0 /\ inc[1] = 0 THEN 0
               ELSE 2 * (2 ^ (MagTop(old, inc) - PrecBits - E))
        L == 2 ^ (-lam[2])
        blend == lam[1] * B + (L - lam[1]) * C
    IN  /\ AbsI(A - C) <= AbsI(B - C) + tol
        /\ (A - C) * SgnI(B - C) >= -tol
        /\ AbsI(L * A - blend) <= L * tol

\* C7 (amended): each update sets (m, b) to the floating-point value of
\* factor * (m, b) + (1 - factor) * (m0, b0); from one update to the next
\* |m - m0| and |b - b0| do not increase, and m, b do not pass m0, b0, by
\* more than the rounding error of that computation (two units in the last
\* place).
C7_Smoothing ==
    [][count' = count + 1 =>
          \A i \in 1..2 :
              BlendWithinRounding(obj'[i], obj[i], arg.line[i], arg.lam)]_vars

\* C7 witness: a line has been updated MaxUpdates times with the default
\* factor and has moved towards an incoming line of another slope
C7_Witness ==
    /\ count = MaxUpdates
    /\ arg.lam = lambda
    /\ Less(obj[1], arg.line[1])
    /\ Less(Num(0), obj[1])

\* ------------------------------------------ Segments.select and dataset
Coords == 0..MaxCoord

\* every segment of the pixel grid
GridSegments == Coords \X Coords \X Coords \X Coords

\* the segment lists under test
TestLists == {<<s>> : s \in GridSegments} \cup SeqsUpTo(HoughUniverse, MaxSegs)

SegsInit ==
    /\ InitIdle
    /\ obj = None
    /\ arg \in [self : TestLists, shape : Shapes]
    /\ out = [op |-> "none"]
    /\ count = 0

\* the two select() calls update() makes for a frame of size arg.shape
DoSelect ==
    /\ out.op = "none"
    /\ out' = [op |-> "select",
               l |-> selected("l", arg.self, arg.shape),
               r |-> selected("r", arg.self, arg.shape)]
    /\ UNCHANGED <<obj, arg, count, regressor>>

\* self.dataset()
DoDataset ==
    /\ out.op = "none"
    /\ out' = [op |-> "dataset",
               X |-> dataset(arg.self)[1],
               y |-> dataset(arg.self)[2]]
    /\ UNCHANGED <<obj, arg, count, regressor>>

SegsNext == DoSelect \/ DoDataset

SpecSegments == SegsInit /\ [][SegsNext]_vars

\* the elements of seq at the positions in P, in order
RECURSIVE AtPositions(_, _, _)
AtPositions(seq, P, i) ==
    IF i > Len(seq) THEN <<>>
    ELSE (IF i \in P THEN <<seq[i]>> ELSE <<>>) \o AtPositions(seq, P, i + 1)

\* positions of arg.self whose segment meets the criterion of key
Positions(key) ==
    {i \in 1..Len(arg.self) : criterion(key, arg.self[i], m_thresh(arg.shape))}

\* C5: for every frame size and segment list, no segment meets both the left
\* and the right criterion, so each segment is in exactly one of left, right
\* and dropped (neither); the selections are the qualifying segments in the
\* order of the input list, which select() leaves as it was.
C5_Partition ==
    out.op = "select" =>
        /\ Positions("l") \cap Positions("r") = {}
        /\ out.l = AtPositions(arg.self, Positions("l"), 1)
        /\ out.r = AtPositions(arg.self, Positions("r"), 1)
        /\ Len(out.l) + Len(out.r) <= Len(arg.self)

\* C5 witness: a list of a right and then a left segment was split
C5_Witness ==
    /\ out.op = "select"
    /\ Len(arg.self) = 2
    /\ Len(out.l) = 1 /\ Len(out.r) = 1
    /\ out.l[1] = arg.self[2]

\* slope(s) < -(y_n / x_n) in exact integer arithmetic
ExactLeft(s, shp) ==
    LET dx == s[3] - s[1]
        dy == s[4] - s[2]
    IN  \/ dx > 0 /\ dy * shp[2] < -(shp[1] * dx)
        \/ dx < 0 /\ dy * shp[2] > -(shp[1] * dx)

\* y_n / x_n < slope(s) in exact integer arithmetic, s not vertical
ExactRight(s, shp) ==
    LET dx == s[3] - s[1]
        dy == s[4] - s[2]
    IN  \/ dx > 0 /\ dy * shp[2] > shp[1] * dx
        \/ dx < 0 /\ dy * shp[2] < shp[1] * dx

InSeq(s, seq) == \E i \in 1..Len(seq) : seq[i] = s

\* C6: a segment is selected left iff its slope is below -height/width, and
\* right iff its slope is above height/width and it is not vertical; a
\* segment with x1 = x2 has slope maxsize whatever the order of y1 and y2,
\* and is selected neither left nor right.
C6_ClassificationRule ==
    out.op = "select" =>
        \A i \in 1..Len(arg.self) :
            LET s == arg.self[i]
            IN  /\ InSeq(s, out.l) <=> ExactLeft(s, arg.shape)
                /\ InSeq(s, out.r) <=> ExactRight(s, arg.shape)
                /\ s[1] = s[3] =>
                       /\ slope(s) = maxsize
                       /\ ~InSeq(s, out.l) /\ ~InSeq(s, out.r)

\* C6 witness: a vertical segment with y1 > y2 was selected for neither side
C6_Witness ==
    /\ out.op = "select"
    /\ \E i \in 1..Len(arg.self) :
          arg.self[i][1] = arg.self[i][3] /\ arg.self[i][2] > arg.self[i][4]
    /\ out.l = <<>> /\ out.r = <<>>

\* number of points the segments before position j contribute
RECURSIVE Offset(_, _)
Offset(self, j) ==
    IF j <= 1 THEN 0
    ELSE Offset(self, j - 1) + (self[j - 1][3] - self[j - 1][1] + 1)

\* C10: for a list of segments with x1 <= x2, dataset() yields for each
\* segment, in list order, exactly x2 - x1 + 1 points, one per integer x of
\* [x1, x2], with y the value at x of the Line through the end points; the
\* size is the sum of x2 - x1 + 1 over the segments.
C10_Densification ==
    (out.op = "dataset" /\ \A j \in 1..Len(arg.self) : arg.self[j][1] <= arg.self[j][3]) =>
        /\ Len(out.X) = Offset(arg.self, Len(arg.self) + 1)
        /\ Len(out.y) = Len(out.X)
        /\ \A j \in 1..Len(arg.self) :
              LET s == arg.self[j]
              IN  \A t \in 0..(s[3] - s[1]) :
                     /\ out.X[Offset(arg.self, j) + t + 1] = s[1] + t
                     /\ out.y[Offset(arg.self, j) + t + 1] =
                            Line_call(Line(s[1], s[2], s[3], s[4]), s[1] + t)

\* C10 witness: two segments of different lengths were densified
C10_Witness ==
    /\ out.op = "dataset"
    /\ Len(arg.self) = 2
    /\ arg.self[1][3] - arg.self[1][1] = 1
    /\ arg.self[2][3] - arg.self[2][1] = 2
    /\ Len(out.X) = 5

\* ------------------------------------------- Line.__init__ and __call__
PointCoords == (-MaxCoord)..MaxCoord

\* the x a line under test is evaluated at
EvalXs == (-(MaxCoord + 1))..(MaxCoord + 1)

LineInit ==
    /\ InitIdle
    /\ obj = None
    /\ arg \in PointCoords \X PointCoords \X PointCoords \X PointCoords
    /\ out = None
    /\ count = 0

\* obj = Line(x1, y1, x2, y2)
Construct ==
    /\ obj = None
    /\ obj' = Line(arg[1], arg[2], arg[3], arg[4])
    /\ UNCHANGED <<arg, out, count, regressor>>

\* obj(x)
Eval(x) ==
    /\ obj # None
    /\ out' = <<x, Line_call(obj, x)>>
    /\ UNCHANGED <<obj, arg, count, regressor>>

LineNext == Construct \/ \E x \in EvalXs : Eval(x)

SpecLine == LineInit /\ [][LineNext]_vars

\* the integer number v is within 1 of the integer y
Within1(v, y) == v[3] = 0 /\ v[2] >= 0 /\ AbsI(IntPart(v) - y) <= 1

\* the line was evaluated at x and returned a value within 1 of y
Reproduces(x, y) == (out # None /\ out[1] = x) => Within1(out[2], y)

\* C9 (as claimed): the Line through any two distinct points, evaluated at
\* x1 and at x2, returns y1 and y2 within 1.
C9_Orig ==
    (obj # None /\ <<arg[1], arg[2]>> # <<arg[3], arg[4]>>) =>
        Reproduces(arg[1], arg[2]) /\ Reproduces(arg[3], arg[4])

\* C9 (amended): the Line through two points with x1 # x2, evaluated at x1
\* and at x2, returns y1 and y2 within 1; the Line through two points with
\* x1 = x2, evaluated at that x, returns y2.
C9_Reconstruction ==
    obj # None =>
        /\ arg[1] # arg[3] =>
               Reproduces(arg[1], arg[2]) /\ Reproduces(arg[3], arg[4])
        /\ (arg[1] = arg[3] /\ out # None /\ out[1] = arg[3]) =>
               out[2] = Num(arg[4])

\* C9 witness: a line of slope 2/3 was evaluated at its second point
C9_Witness ==
    /\ obj # None /\ out # None
    /\ arg[3] - arg[1] = 3 /\ arg[4] - arg[2] = 2
    /\ out[1] = arg[3] /\ Within1(out[2], arg[4])

\* ------------------------------------------ per-frame ordering of __call__
\* the estimate of a side after this frame's update() of that side
PostUpdate(key) ==
    IF updating[key] = None THEN prev[key]
    ELSE Stored(prev[key], updating[key])

\* the sides whose draw() of this frame has returned
DrawnSides ==
    IF pc = "draw_r" THEN {"l"}
    ELSE IF pc = "return" THEN {"l", "r"}
    ELSE {}

\* the x range a side is drawn over: left [0, center], right [center, edge]
DrawFrom(key) == IF key = "l" THEN 0 ELSE shape[2] \div 2

DrawTo(key) == IF key = "l" THEN shape[2] \div 2 ELSE shape[2] - 1

\* C11: nothing is drawn before both sides' updates of the frame are
\* complete; what is drawn for a side is its estimate after this frame's
\* update, evaluated at the ends of [0, center] for the left side and of
\* [center, right edge] for the right side; a side with no estimate is not
\* drawn, and its draw() returns normally.
C11_FrameOrdering ==
    \A k \in Keys :
        /\ k \notin DrawnSides => drawn[k] = None
        /\ k \in DrawnSides =>
               /\ lines[k] = PostUpdate(k)
               /\ IF PostUpdate(k) = None THEN drawn[k] = None
                  ELSE drawn[k] = <<DrawFrom(k),
                                    Line_call(PostUpdate(k), DrawFrom(k)),
                                    DrawTo(k),
                                    Line_call(PostUpdate(k), DrawTo(k))>>

\* C11 witness: a frame that smoothed the left estimate to a new value has
\* drawn it, and has passed the right side, which has no estimate yet
C11_Witness ==
    /\ pc = "return"
    /\ prev["l"] # None /\ updating["l"] # None /\ lines["l"] # prev["l"]
    /\ drawn["l"] # None /\ drawn["l"][1] = 0 /\ drawn["l"][3] = x_c
    /\ lines["r"] = None /\ drawn["r"] = None

\* ------------------------------------------------- Line.__call__ result
\* the integer r is V / S with its fractional part discarded toward zero
\* (V an integer, S a positive integer)
TowardZero(r, V, S) ==
    /\ AbsI(r) * S <= AbsI(V)
    /\ AbsI(V) < (AbsI(r) + 1) * S
    /\ r * SgnI(V) >= 0

\* x * m + b as Python computes it: a rounded product, then a rounded sum
FloatValue(self, x) == Add(Mul(Num(x), self[1]), self[2])

\* the result o = <<x, y>> is the truncation toward zero of the computed
\* x * m + b
TruncatesComputed(self, o) ==
    LET v == FloatValue(self, o[1])
        E == MinI(v[2], 0)
    IN  /\ o[2][2] >= 0
        /\ o[2][3] = v[3]
        /\ TowardZero(IntPart(o[2]), Scaled(v, E), 2 ^ (-E))

\* the result o = <<x, y>> is the truncation toward zero of the exact
\* m * x + b
TruncatesExact(self, o) ==
    LET m == self[1]
        b == self[2]
        E == MinI(MinI(m[2], b[2]), 0)
    IN  /\ o[2][2] >= 0
        /\ o[2][3] = o[1] * m[3] + b[3]
        /\ TowardZero(IntPart(o[2]),
                      o[1] * Scaled(m, E) + Scaled(b, E), 2 ^ (-E))

====
